---- MODULE Spec2Model ----
(***************************************************************************)
(* Model of auto-header.rs (src/src/main.rs): configuration resolution,    *)
(* header rendering and header reconciliation.                             *)
(*                                                                         *)
(* Text is a sequence of atoms.  An atom stands for a fixed, non-empty     *)
(* piece of text: a character, the line break NL, or one placeholder token *)
(* of the template vocabulary.  Option<T> is a sequence of length 0 (None) *)
(* or 1 (Some).  A panic (unwrap on None, index out of range) is a result  *)
(* record with ok = FALSE.                                                 *)
(***************************************************************************)
EXTENDS Integers, Sequences, FiniteSets, TLC

VARIABLES fn, args, ret,
          config, cwd, path, language, file,
          runs, outcome, project, lang_conf, header, header_present, file_before

vars == <<fn, args, ret, config, cwd, path, language, file,
          runs, outcome, project, lang_conf, header, header_present, file_before>>

mainVars == <<config, cwd, path, language, file,
              runs, outcome, project, lang_conf, header, header_present, file_before>>

\* ---------------------------------------------------------------- Option<T>
None == <<>>
Some(x) == <<x>>
is_some(o) == o # <<>>
is_none(o) == o = <<>>
unwrap(o) == o[1]
unwrap_or(o, d) == IF o # <<>> THEN o[1] ELSE d

\* ------------------------------------------------------------------ strings
NL == "\n"

starts_with(s, t) == Len(t) <= Len(s) /\ SubSeq(s, 1, Len(t)) = t

contains(s, t) == \E i \in 0..(Len(s) - Len(t)) : SubSeq(s, i + 1, i + Len(t)) = t

\* In "CHOOSE y \in {e(v) : v \in {s}} : TRUE" the value of s is computed
\* once and named v; the definitions below use it where a value is read at
\* several places.

RECURSIVE intersperse(_, _)
intersperse(s, rep) ==
    IF s = <<>> THEN rep ELSE rep \o <<Head(s)>> \o intersperse(Tail(s), rep)

\* str::replace: every non-overlapping match of pat, left to right, scanning
\* from position i; an empty pattern matches at every boundary.
replace(s, pat, rep) ==
    CHOOSE y \in
        {IF p = <<>> THEN intersperse(v, r)
         ELSE LET from[i \in 1..(Len(v) + 1)] ==
                      IF i > Len(v) THEN <<>>
                      ELSE IF i + Len(p) - 1 <= Len(v) /\ SubSeq(v, i, i + Len(p) - 1) = p
                           THEN r \o from[i + Len(p)]
                           ELSE <<v[i]>> \o from[i + 1]
              IN  from[1] :
         v \in {s}, p \in {pat}, r \in {rep}} : TRUE

\* str::split('\n'): the pieces between line breaks, from position i on;
\* always at least one piece.
split(s) ==
    CHOOSE y \in
        {LET from[i \in 1..(Len(v) + 1)] ==
                 IF \A k \in i..Len(v) : v[k] # NL THEN <<SubSeq(v, i, Len(v))>>
                 ELSE LET next == CHOOSE k \in i..Len(v) :
                                      v[k] = NL /\ \A j \in i..(k - 1) : v[j] # NL
                      IN  <<SubSeq(v, i, next - 1)>> \o from[next + 1]
         IN  from[1] :
         v \in {s}} : TRUE

\* [String]::join("\n")
join(lines) ==
    CHOOSE y \in
        {LET from[i \in 1..(Len(v) + 1)] ==
                 IF i > Len(v) THEN <<>>
                 ELSE IF i = Len(v) THEN v[i]
                 ELSE v[i] \o <<NL>> \o from[i + 1]
         IN  from[1] :
         v \in {lines}} : TRUE

\* ----------------------------------------------------------------- results
Ok(v) == [ok |-> TRUE, val |-> v]
Panic == [ok |-> FALSE, val |-> <<>>]

\* ------------------------------------------------------- ConfigData::merge
\* unwrap_or takes its argument by value: default.<field>.clone().unwrap()
\* is evaluated before unwrap_or looks at self.<field>.
ConfigData_merge(self, default) ==
    IF is_none(default.author) \/ is_none(default.author_mail) \/ is_none(default.cp_holders)
    THEN Panic
    ELSE Ok([author      |-> Some(unwrap_or(self.author, unwrap(default.author))),
             author_mail |-> Some(unwrap_or(self.author_mail, unwrap(default.author_mail))),
             cp_holders  |-> Some(unwrap_or(self.cp_holders, unwrap(default.cp_holders)))])

\* --------------------------------------------------------- Template::merge
Template_merge(self, default) ==
    IF is_none(default.prefix) \/ is_none(default.before) \/ is_none(default.after)
       \/ is_none(default.template) \/ is_none(default.copyright_notice)
       \/ is_none(default.track_changes)
    THEN Panic
    ELSE Ok([name             |-> self.name,
             prefix           |-> Some(unwrap_or(self.prefix, unwrap(default.prefix))),
             before           |-> Some(unwrap_or(self.before, unwrap(default.before))),
             after            |-> Some(unwrap_or(self.after, unwrap(default.after))),
             template         |-> Some(unwrap_or(self.template, unwrap(default.template))),
             copyright_notice |-> Some(unwrap_or(self.copyright_notice,
                                                 unwrap(default.copyright_notice))),
             track_changes    |-> Some(unwrap_or(self.track_changes,
                                                 unwrap(default.track_changes)))])

\* ------------------------------------------------------------------- paths
\* A path is the sequence of its components below "/"; <<>> is "/" itself.
\* args.path is [absolute, comps]; Path::join keeps an absolute argument.
path_join(base, p) == IF p.absolute THEN p.comps ELSE base \o p.comps

\* Path::parent: None for "/".
parent(p) == IF p = <<>> THEN None ELSE Some(SubSeq(p, 1, Len(p) - 1))

\* Path::strip_prefix, component-wise.
strip_prefix(p, base) ==
    IF starts_with(p, base) THEN Ok(SubSeq(p, Len(base) + 1, Len(p))) ELSE Panic

\* Path::file_name: None for "/".
file_name(p) == IF p = <<>> THEN None ELSE Some(p[Len(p)])

\* Path::to_str of a relative path: the components separated by "/".
RECURSIVE to_str(_)
to_str(p) ==
    IF p = <<>> THEN <<>>
    ELSE IF Len(p) = 1 THEN <<p[1]>>
    ELSE <<p[1], "/">> \o to_str(Tail(p))

\* Iterator::find: the first position, in list order, among those that
\* satisfy the test.
first_index(positions) ==
    IF positions # {}
    THEN Some(CHOOSE i \in positions : \A j \in positions : i <= j)
    ELSE None

\* ------------------------------------------------------ get_language_config
get_language_config(cfg, lang) ==
    IF is_none(cfg.language) THEN Some(cfg.default)
    ELSE LET templates == unwrap(cfg.language)
             res == first_index({i \in 1..Len(templates) : templates[i].name = lang})
         IN  IF is_some(res) THEN Some(templates[unwrap(res)])
             ELSE IF ~cfg.language_strict THEN Some(cfg.default)
             ELSE None

\* ------------------------------------------------------------- find_project
\* As find_project_walk, but a root matches when the path starts with it.
find_project_walk_prefix(projects, p) ==
    LET found == first_index({i \in 1..Len(projects) : starts_with(p, projects[i].root)})
    IN  IF is_some(found) THEN Some(projects[unwrap(found)]) ELSE None

\* The loop of find_project: test the current path, then its parent.
RECURSIVE find_project_walk(_, _)
find_project_walk(projects, p) ==
    LET found == first_index({i \in 1..Len(projects) : projects[i].root = p})
    IN  IF is_some(found) THEN Some(projects[unwrap(found)])
        ELSE IF is_none(parent(p)) THEN None
        ELSE find_project_walk(projects, unwrap(parent(p)))

find_project(cfg, dir, p) ==
    IF unwrap_or(cfg.project, <<>>) = <<>> THEN None
    ELSE find_project_walk(unwrap(cfg.project), path_join(dir, p))

\* ------------------------------------------------------------ fill_template
\* fs::metadata of the path relative to the project root, resolved by the
\* operating system against the working directory.  The file system holds
\* the target file and its ancestor directories; the empty path has no
\* metadata.
metadata_ok(dir, rel, target) ==
    rel # <<>> /\ starts_with(target, dir \o rel)

\* As header_lines, but an empty body line is left without the prefix.
header_lines_bare_empty(template, res) ==
    CHOOSE y \in
        {unwrap_or(template.before, <<>>)
         \o [i \in 1..Len(body) |-> IF body[i] = <<>> THEN <<>> ELSE prefix \o body[i]]
         \o unwrap_or(template.after, <<>>) :
         body \in {split(res)}, prefix \in {unwrap_or(template.prefix, <<>>)}} : TRUE

\* The tail of fill_template: before lines, prefixed body lines, after lines.
header_lines(template, res) ==
    CHOOSE y \in
        {unwrap_or(template.before, <<>>)
         \o [i \in 1..Len(body) |-> prefix \o body[i]]
         \o unwrap_or(template.after, <<>>) :
         body \in {split(res)}, prefix \in {unwrap_or(template.prefix, <<>>)}} : TRUE

fill_template(template, proj, p, root, dir, clock) ==
    LET abs == path_join(dir, p)
        rel == strip_prefix(abs, root)
    IN  IF ~rel.ok THEN Panic
        ELSE IF ~metadata_ok(dir, rel.val, abs) THEN Panic
        ELSE IF is_none(template.copyright_notice) THEN Panic
        ELSE IF is_none(file_name(root)) THEN Panic
        ELSE
        LET data == unwrap(proj.data)
            r0 == replace(unwrap_or(template.template, <<>>), <<"#copyright_notice">>,
                          unwrap(template.copyright_notice))
            r1 == replace(r0, <<"#file_creation">>, clock.creation_date)
            r2 == replace(r1, <<"#date_now">>, clock.modification_date)
            r3 == replace(r2, <<"#file_relative_path">>, to_str(rel.val))
            r4 == replace(r3, <<"#project_name">>,
                          unwrap_or(proj.name, <<unwrap(file_name(root))>>))
            r5 == replace(r4, <<"#author_name">>, unwrap_or(data.author, <<>>))
            r6 == replace(r5, <<"#cp_year">>, clock.year)
            r7 == IF is_some(data.author_mail) /\ unwrap(data.author_mail) # <<>>
                  THEN replace(r6, <<"#author_mail">>,
                               <<"<">> \o unwrap(data.author_mail) \o <<">">>)
                  ELSE replace(r6, <<"#author_mail">>, <<>>)
            res == IF is_some(data.cp_holders) /\ unwrap(data.cp_holders) # <<>>
                   THEN replace(r7, <<"#cp_holders">>,
                                <<"<">> \o unwrap(data.cp_holders) \o <<">">>)
                   ELSE replace(r7, <<"#cp_holders">>, <<>>)
        IN  Ok(header_lines(template, res))

\* ------------------------------------------------------ check_header_exists
CreationDate == <<"Creation", " ", "date">>

\* The closure of both check_header_exists and update_header.
is_tracked(h, prefix, tracked) ==
    \E stripped \in {replace(h, prefix, <<>>)} :
        \E k \in 1..Len(tracked) : starts_with(stripped, tracked[k])

\* The for loop over content.iter().zip(header.iter()), from pair i on.
RECURSIVE header_loop(_, _, _, _, _)
header_loop(content, hdr, prefix, tracked, i) ==
    IF i > Len(content) \/ i > Len(hdr) THEN TRUE
    ELSE IF content[i] # hdr[i]
            /\ ~contains(hdr[i], CreationDate)
            /\ ~is_tracked(hdr[i], prefix, tracked)
         THEN FALSE
         ELSE header_loop(content, hdr, prefix, tracked, i + 1)

check_header_exists(text, hdr, template) ==
    \E content \in {split(text)} :
        IF Len(content) < Len(hdr) THEN FALSE
        ELSE header_loop(content, hdr, unwrap_or(template.prefix, <<>>),
                         unwrap_or(template.track_changes, <<>>), 1)

\* ------------------------------------------------------------ update_header
\* header.iter().enumerate().for_each, from index i on; content[i] = h
\* panics when the file has no line i.
RECURSIVE update_loop(_, _, _, _, _)
update_loop(content, hdr, prefix, tracked, i) ==
    IF i > Len(hdr) THEN Ok(content)
    ELSE IF is_tracked(hdr[i], prefix, tracked)
         THEN IF i > Len(content) THEN Panic
              ELSE CHOOSE y \in {update_loop(patched, hdr, prefix, tracked, i + 1) :
                                 patched \in {[content EXCEPT ![i] = hdr[i]]}} : TRUE
         ELSE update_loop(content, hdr, prefix, tracked, i + 1)

update_header(text, hdr, template) ==
    CHOOSE y \in
        {IF r.ok THEN Ok(join(r.val)) ELSE Panic :
         r \in {update_loop(split(text), hdr, unwrap_or(template.prefix, <<>>),
                            unwrap_or(template.track_changes, <<>>), 1)}} : TRUE

\* ------------------------------------------------------------- write_header
\* As write_header, without the line break after the header.
write_header_unterminated(text, hdr) == join(hdr) \o text

write_header(text, hdr) == join(hdr) \o <<NL>> \o text

\* --------------------------------------------------------------------- main
\* One invocation, from find_project on (the target and the configuration
\* file exist and the configuration parses).  The result carries the locals
\* of main that the properties below speak about.
main_result(o, proj, lc, hdr, present, text) ==
    [outcome |-> o, project |-> proj, lang_conf |-> lc, header |-> hdr,
     header_present |-> present, file |-> text]

\* Lines 233-249: update, creation or nothing.
main_reconcile(cfg, text, proj, lc, hdr) ==
    CHOOSE y \in
        {IF present /\ cfg.update
         THEN CHOOSE z \in
                  {IF r.ok
                   THEN main_result("updated", Some(proj), Some(lc), hdr, present, r.val)
                   ELSE main_result("panic_update", Some(proj), Some(lc), hdr, present, text) :
                   r \in {update_header(text, hdr, lc)}} : TRUE
         ELSE IF ~present /\ cfg.create
         THEN main_result("written", Some(proj), Some(lc), hdr, present,
                          write_header(text, hdr))
         ELSE main_result("nothing", Some(proj), Some(lc), hdr, present, text) :
         present \in {check_header_exists(text, hdr, lc)}} : TRUE

\* Lines 230-231: build the header.
main_header(cfg, dir, p, text, clock, proj, lc) ==
    CHOOSE y \in
        {IF ~hdr.ok THEN main_result("panic_fill", Some(proj), Some(lc), <<>>, FALSE, text)
         ELSE main_reconcile(cfg, text, proj, lc, hdr.val) :
         hdr \in {fill_template(lc, proj, p, proj.root, dir, clock)}} : TRUE

\* Lines 218-229: the template of the target's language.
main_language(cfg, dir, p, lang, text, clock, proj) ==
    CHOOSE y \in
        {IF is_none(selected)
         THEN main_result("no_language", Some(proj), None, <<>>, FALSE, text)
         ELSE CHOOSE z \in
                  {IF ~lc.ok
                   THEN main_result("panic_template", Some(proj), None, <<>>, FALSE, text)
                   ELSE main_header(cfg, dir, p, text, clock, proj, lc.val) :
                   lc \in {Template_merge(unwrap(selected), cfg.default)}} : TRUE :
         selected \in {get_language_config(cfg, lang)}} : TRUE

\* Lines 200-216: the project of the target, its flags and its data.
main(cfg, dir, p, lang, text, clock) ==
    CHOOSE y \in
        {IF is_none(found) THEN main_result("no_project", None, None, <<>>, FALSE, text)
         ELSE IF ~unwrap_or(unwrap(found).create, cfg.create)
                 /\ ~unwrap_or(unwrap(found).update, cfg.update)
         THEN main_result("forbidden", found, None, <<>>, FALSE, text)
         ELSE CHOOSE z \in
                  {IF ~data.ok
                   THEN main_result("panic_data", found, None, <<>>, FALSE, text)
                   ELSE CHOOSE w \in
                            {main_language(cfg, dir, p, lang, text, clock, proj) :
                             proj \in {[unwrap(found) EXCEPT !.data = Some(data.val)]}} : TRUE :
                   data \in {IF is_some(unwrap(found).data)
                             THEN ConfigData_merge(unwrap(unwrap(found).data), cfg.data)
                             ELSE Ok(cfg.data)}} : TRUE :
         found \in {find_project(cfg, dir, p)}} : TRUE

\* ------------------------------------------------------------------ inputs
MaxRuns == 2

Template(name, prefix, before, after, template, notice, track) ==
    [name |-> name, prefix |-> prefix, before |-> before, after |-> after,
     template |-> template, copyright_notice |-> notice, track_changes |-> track]

Project(root, name, create, update, data) ==
    [root |-> root, name |-> name, create |-> create, update |-> update,
     locale |-> None, data |-> data]

Config(create, update, strict, data, default, lang, proj) ==
    [create |-> create, update |-> update, language_strict |-> strict, locale |-> "en",
     data |-> data, default |-> default, language |-> lang, project |-> proj]

ConfigData(author, mail, holders) ==
    [author |-> author, author_mail |-> mail, cp_holders |-> holders]

Clock(created, modified, year) ==
    [creation_date |-> created, modification_date |-> modified, year |-> year]

Clocks == {Clock(<<"d1">>, <<"d1">>, <<"2024">>), Clock(<<"d2">>, <<"d2">>, <<"2024">>)}

OptBool == {None, Some(TRUE), Some(FALSE)}

Body == <<"L", " ", "#date_now", NL, "Creation", " ", "date", " ", "#file_creation", NL,
          "#file_relative_path">>

FullData == ConfigData(Some(<<"a">>), Some(<<"m">>), Some(<<"h">>))
FullTemplate == Template("*", Some(<<"/", "/">>), Some(<<>>), Some(<<>>), Some(Body),
                         Some(<<"c">>), Some(<< <<"L">> >>))
RelFile == [absolute |-> FALSE, comps |-> <<"f">>]
AbsFile == [absolute |-> TRUE, comps |-> <<"p", "f">>]
Tails == {<<>>, <<"x", NL, "y">>}

\* The headers the invocation can render for an input, over all clocks.
HeadersFor(cfg, dir, p, lang) ==
    {main(cfg, dir, p, lang, <<>>, c).header : c \in Clocks} \ {<<>>}

\* Target files: without a header, with a rendered header and, when edited
\* files are asked for, with one header line edited or cut short inside the
\* header.
FilesFor(cfg, dir, p, lang, edited) ==
    UNION {Tails
           \cup {write_header(<<"y">>, h) : h \in hs}
           \cup IF edited
                THEN UNION {{write_header(<<"y">>, [h EXCEPT ![i] = <<"x">>]) :
                             i \in 1..Len(h)} : h \in hs}
                     \cup {join(SubSeq(h, 1, Len(h) - 1)) : h \in hs}
                ELSE {} :
           hs \in {HeadersFor(cfg, dir, p, lang)}}

\* Reconciliation inputs: one project, the default template in its variants.
ReconConfigs ==
    {Config(fl[1], fl[2], FALSE, FullData,
            Template("*", Some(pre), Some(bef), Some(aft), Some(Body), Some(<<"c">>), Some(trk)),
            None, Some(<< Project(<<"p">>, None, None, None, None) >>)) :
        fl \in {<<TRUE, TRUE>>, <<TRUE, FALSE>>, <<FALSE, TRUE>>},
        pre \in {<<"/", "/">>, <<" ">>, <<>>},
        bef \in {<<>>, << <<"s">> >>, << <<"s", NL>> >>, << <<"L", NL, "x">> >>},
        aft \in {<< <<"e">> >>},
        trk \in {<<>>, << <<"L">> >>, << <<"L", " ">> >>}}

\* Flag inputs: global flags against the project's overrides and data.
FlagConfigs ==
    {Config(c, u, FALSE, d, FullTemplate, None,
            Some(<< Project(<<"p">>, None, pc, pu, pd) >>)) :
        c \in BOOLEAN, u \in BOOLEAN, pc \in OptBool, pu \in OptBool,
        d \in {FullData, ConfigData(None, Some(<<"m">>), Some(<<"h">>))},
        pd \in {None, Some(ConfigData(Some(<<"b">>), None, None))}}

\* Language inputs: the list of language templates, strictness, and a
\* default template with or without every field.
LanguageLists ==
    {None, Some(<<>>),
     Some(<< Template("rs", Some(<<"/", "/", "/">>), None, None, None, None, None) >>),
     Some(<< Template("py", Some(<<"#">>), Some(<< <<"s">> >>), Some(<<>>), Some(Body),
                      Some(<<"c">>), Some(<<>>)),
             Template("rs", None, None, None, None, None, None),
             Template("rs", Some(<<"/", "/", "/">>), None, None, None, None, None) >>)}

LanguageConfigs ==
    {Config(TRUE, TRUE, strict, FullData, def, langs,
            Some(<< Project(<<"p">>, None, None, None, None) >>)) :
        strict \in BOOLEAN, langs \in LanguageLists,
        def \in {FullTemplate, [FullTemplate EXCEPT !.before = None]}}

\* Project inputs: the list of projects and where the target lies.
ProjectLists ==
    {None, Some(<<>>),
     Some(<< Project(<<"q">>, None, None, None, None) >>),
     Some(<< Project(<<>>, Some(<<"n">>), None, None, None) >>),
     Some(<< Project(<<"p">>, None, None, None, None),
             Project(<<"p", "src">>, Some(<<"n">>), None, None, None) >>)}

ProjectConfigs ==
    {Config(TRUE, TRUE, FALSE, FullData, FullTemplate, None, projs) : projs \in ProjectLists}

InitMain(cfgs, dirs, paths, langs, edited) ==
    /\ fn = "main" /\ args = <<>> /\ ret = <<>>
    /\ config \in cfgs
    /\ cwd \in dirs
    /\ path \in paths
    /\ language \in langs
    /\ file \in FilesFor(config, cwd, path, language, edited)
    /\ runs = 0
    /\ outcome = "start"
    /\ project = None
    /\ lang_conf = None
    /\ header = <<>>
    /\ header_present = FALSE
    /\ file_before = <<>>

Init ==
    \/ InitMain(ReconConfigs, {<<"p">>}, {RelFile}, {"*"}, TRUE)
    \/ InitMain(FlagConfigs, {<<"p">>}, {RelFile}, {"*"}, FALSE)
    \/ InitMain(LanguageConfigs, {<<"p">>}, {RelFile}, {"rs", "py", "*"}, FALSE)
    \/ InitMain(ProjectConfigs, {<<"p">>, <<"p", "src">>, <<>>},
                {RelFile, AbsFile, [absolute |-> TRUE, comps |-> <<"p", "src", "f">>]}, {"*"},
                FALSE)

\* One run of the program on the target file.
Main ==
    /\ fn = "main"
    /\ runs < MaxRuns
    /\ \E clock \in Clocks :
         \E r \in {main(config, cwd, path, language, file, clock)} :
             /\ outcome' = r.outcome
             /\ project' = r.project
             /\ lang_conf' = r.lang_conf
             /\ header' = r.header
             /\ header_present' = r.header_present
             /\ file' = r.file
    /\ file_before' = file
    /\ runs' = runs + 1
    /\ UNCHANGED <<fn, args, ret, config, cwd, path, language>>

Next == Main

Spec == Init /\ [][Next]_vars

\* ------------------------------------------------- the functions on their own
\* The state of the program outside a run of main.
Idle ==
    /\ config = <<>> /\ cwd = <<>> /\ path = <<>> /\ language = "" /\ file = <<>>
    /\ runs = 0 /\ outcome = "start" /\ project = None /\ lang_conf = None
    /\ header = <<>> /\ header_present = FALSE /\ file_before = <<>>

Opt(v) == {None, Some(v)}

\* ConfigData::merge and Template::merge on every pattern of set fields.
IdentityPairs ==
    {<<ConfigData(a, m, h), ConfigData(da, dm, dh)>> :
        a \in Opt(<<"a">>), m \in Opt(<<"m">>), h \in Opt(<<"h">>),
        da \in Opt(<<"A">>), dm \in Opt(<<"M">>), dh \in Opt(<<>>)}

TemplatePairs ==
    {<<Template("rs", t[1], t[2], t[3], t[4], t[5], t[6]),
       Template("*", d[1], d[2], d[3], d[4], d[5], d[6])>> :
        t \in Opt(<<"/", "/">>) \X Opt(<< <<"s">> >>) \X Opt(<<>>) \X Opt(Body)
              \X Opt(<<"c">>) \X Opt(<< <<"L">> >>),
        d \in Opt(<<"#">>) \X Opt(<<>>) \X Opt(<< <<"e">> >>) \X Opt(<<"b">>)
              \X Opt(<<>>) \X Opt(<<>>)}

InitMerge ==
    /\ \/ fn = "ConfigData::merge" /\ args \in IdentityPairs
       \/ fn = "Template::merge" /\ args \in TemplatePairs
    /\ ret = None
    /\ Idle

CallConfigDataMerge ==
    /\ fn = "ConfigData::merge" /\ ret = None
    /\ ret' = Some(ConfigData_merge(args[1], args[2]))
    /\ UNCHANGED <<fn, args>> /\ UNCHANGED mainVars

CallTemplateMerge ==
    /\ fn = "Template::merge" /\ ret = None
    /\ ret' = Some(Template_merge(args[1], args[2]))
    /\ UNCHANGED <<fn, args>> /\ UNCHANGED mainVars

NextMerge == CallConfigDataMerge \/ CallTemplateMerge

SpecMerge == InitMerge /\ [][NextMerge]_vars

\* find_project on every list of projects and every target path.
MaxProjects == 2
MaxRootDepth == 2
MaxDepth == 3
Names == {"a", "b"}

Paths(n) == UNION {[1..k -> Names] : k \in 0..n}

ProjectsOver(roots) ==
    {[i \in 1..Len(rs) |-> Project(rs[i], Some(<<i>>), None, None, None)] :
        rs \in UNION {[1..k -> roots] : k \in 0..MaxProjects}}

InitFind ==
    /\ fn = "find_project"
    /\ \E projs \in {None} \cup {Some(l) : l \in ProjectsOver(Paths(MaxRootDepth))},
          p \in Paths(MaxDepth) \ {<<>>}, dir \in {<<>>, <<"a">>}, abs \in BOOLEAN :
          args = <<[project |-> projs], dir, [absolute |-> abs, comps |-> p]>>
    /\ ret = None
    /\ Idle

CallFindProject ==
    /\ fn = "find_project" /\ ret = None
    /\ ret' = Some(find_project(args[1], args[2], args[3]))
    /\ UNCHANGED <<fn, args>> /\ UNCHANGED mainVars

NextFind == CallFindProject

SpecFind == InitFind /\ [][NextFind]_vars

\* fill_template on templates with and without surrounding lines, empty body
\* lines, and values that carry line breaks.
ExampleArgs ==
    <<Template("go", Some(<<"// ">>), None, None,
               Some(<<"Copyright ", "#cp_year", " ", "#cp_holders", NL, "#file_relative_path">>),
               Some(<<>>), None),
      Project(<<"p">>, None, None, None, Some(ConfigData(None, None, Some(<<"Acme">>)))),
      [absolute |-> FALSE, comps |-> <<"src", "a.go">>], <<"p">>, <<"p">>,
      Clock(<<"d1">>, <<"d2">>, <<"2024">>)>>

RenderBodies ==
    {None, Some(<<>>), Some(Body),
     Some(<<"#copyright_notice", NL, NL, "#project_name", " ", "#author_name", "#author_mail",
            "#cp_holders", NL>>)}

RenderArgs ==
    {<<Template("*", pre, bef, aft, body, Some(cn), Some(<<>>)),
       Project(root, name, None, None, Some(data)),
       RelFile, root, <<"p">>, Clock(<<"d1">>, <<"d2">>, <<"2024">>)>> :
        pre \in {None, Some(<<"/", "/">>)},
        bef \in {None, Some(<< <<"s">>, <<>> >>)},
        aft \in {None, Some(<< <<"e">> >>)},
        body \in RenderBodies,
        cn \in {<<"c">>, <<"c", NL, "#cp_year">>},
        root \in {<<"p">>, <<>>, <<"q">>},
        name \in {None, Some(<<"n">>)},
        data \in {FullData, ConfigData(Some(<<"a", NL, "b">>), Some(<<>>), None)}}

InitRender ==
    /\ fn = "fill_template"
    /\ args \in RenderArgs \cup {ExampleArgs}
    /\ ret = None
    /\ Idle

CallFillTemplate ==
    /\ fn = "fill_template" /\ ret = None
    /\ ret' = Some(fill_template(args[1], args[2], args[3], args[4], args[5], args[6]))
    /\ UNCHANGED <<fn, args>> /\ UNCHANGED mainVars

NextRender == CallFillTemplate

SpecRender == InitRender /\ [][NextRender]_vars

\* =============================================================== properties
Reconciled == outcome \in {"updated", "written", "nothing"}

\* Removal of the leading prefix only.
strip_leading(s, prefix) ==
    IF starts_with(s, prefix) THEN SubSeq(s, Len(prefix) + 1, Len(s)) ELSE s

tracked_stripped(h, template) ==
    \E k \in 1..Len(unwrap_or(template.track_changes, <<>>)) :
        starts_with(strip_leading(h, unwrap_or(template.prefix, <<>>)),
                    template.track_changes[1][k])

\* ----- C1
update_enabled == unwrap_or(unwrap(project).update, config.update)
create_enabled == unwrap_or(unwrap(project).create, config.create)

\* C1: at the reconciliation step, with the flags taken as the project's
\* override when set and the global flag otherwise: header present and update
\* enabled patches; header absent and create enabled prepends; the two other
\* cases leave the file alone and report a no-op.
C1_DecisionFollowsOverrides ==
    Reconciled =>
        /\ (header_present /\ update_enabled) =>
               (outcome = "updated"
                /\ file = update_header(file_before, header, unwrap(lang_conf)).val)
        /\ (~header_present /\ create_enabled) =>
               (outcome = "written" /\ file = write_header(file_before, header))
        /\ ((header_present /\ ~update_enabled) \/ (~header_present /\ ~create_enabled)) =>
               (outcome = "nothing" /\ file = file_before)

\* ----- C3
\* The merge of the design: the specific field when present, else the fallback's.
merged_fields(specific, fallback) ==
    [f \in DOMAIN specific |->
        IF f = "name" THEN specific[f]
        ELSE IF is_some(specific[f]) THEN specific[f] ELSE fallback[f]]

LanguageSelected == outcome \notin {"start", "no_project", "forbidden", "panic_data"}

\* C3: with no language templates configured the default template is used
\* directly; a template named like the detected language is used merged
\* against the default; with no match the default is used unless the match is
\* strict, and then the file is skipped unmodified.
C3_LanguageSelection ==
    LanguageSelected =>
        LET templates == unwrap_or(config.language, <<>>)
            matches == {i \in 1..Len(templates) : templates[i].name = language}
        IN  /\ is_none(config.language) => lang_conf = Some(config.default)
            /\ (is_some(config.language) /\ matches # {}) =>
                   \E i \in matches :
                       lang_conf = Some(merged_fields(templates[i], config.default))
            /\ (is_some(config.language) /\ matches = {} /\ ~config.language_strict) =>
                   lang_conf = Some(config.default)
            /\ (is_some(config.language) /\ matches = {} /\ config.language_strict) =>
                   (outcome = "no_language" /\ file = file_before)

\* ----- C5
\* C5: the header is reported present exactly when the file has at least as
\* many lines as the header and every header line is identical to the file
\* line, or contains "Creation date", or starts, prefix stripped, with a
\* tracked prefix.
C5_ExistsCharacterised ==
    Reconciled =>
        LET content == split(file_before)
        IN  header_present <=>
                /\ Len(content) >= Len(header)
                /\ \A i \in 1..Len(header) :
                       \/ content[i] = header[i]
                       \/ contains(header[i], CreationDate)
                       \/ tracked_stripped(header[i], unwrap(lang_conf))

\* ----- C6
\* C6: right after the header is written, the header is found present.
C6_PresentAfterCreate ==
    outcome = "written" => check_header_exists(file, header, unwrap(lang_conf))

\* ----- C7
\* C7: a patch keeps the number of lines, leaves every line that is past the
\* header or whose header line is not tracked byte-identical, and makes every
\* tracked line the rendered one.
C7_PatchRestricted ==
    outcome = "updated" =>
        LET old == split(file_before)
            new == split(file)
        IN  /\ Len(new) = Len(old)
            /\ \A i \in 1..Len(old) :
                   IF i <= Len(header) /\ tracked_stripped(header[i], unwrap(lang_conf))
                   THEN new[i] = header[i]
                   ELSE new[i] = old[i]

\* ----- C8
\* The header lines, each followed by a line break.
RECURSIVE terminated(_)
terminated(lines) ==
    IF lines = <<>> THEN <<>> ELSE Head(lines) \o <<NL>> \o terminated(Tail(lines))

\* C8: after the header is written the file is the header lines joined with
\* line breaks, one more line break, then the whole original content.
C8_CreatePrepends ==
    outcome = "written" =>
        /\ Len(file) >= Len(file_before)
        /\ SubSeq(file, Len(file) - Len(file_before) + 1, Len(file)) = file_before
        /\ SubSeq(file, 1, Len(file) - Len(file_before)) = terminated(header)

C8_Witness ==
    outcome = "written" /\ file_before # <<>> /\ Len(header) >= 4

\* ----- C10
exempt_line(h, template) ==
    contains(h, CreationDate) \/ tracked_stripped(h, template)

differ_only_on_exempt(h1, h2, template) ==
    /\ Len(h1) = Len(h2)
    /\ \A i \in 1..Len(h1) :
           h1[i] # h2[i] => (exempt_line(h1[i], template) /\ exempt_line(h2[i], template))

\* C10: with create and update enabled, once an invocation has prepended or
\* patched the header, the next invocation, whose header differs only on
\* creation-date or tracked lines, patches and leaves the line count alone.
C10_PrependedAtMostOnce ==
    [][(/\ outcome \in {"written", "updated"}
        /\ config.create /\ config.update
        /\ outcome' \in {"written", "updated", "nothing"}
        /\ differ_only_on_exempt(header, header', unwrap(lang_conf)))
       => (outcome' = "updated" /\ Len(split(file')) = Len(split(file)))]_vars

\* ----- C2
MergeableFields(f) ==
    IF f = "ConfigData::merge" THEN {"author", "author_mail", "cp_holders"}
    ELSE {"prefix", "before", "after", "template", "copyright_notice", "track_changes"}

\* C2: whenever every field is set in the specific or in the fallback record,
\* the merge succeeds and each field of the result is the specific one when
\* set and the fallback one otherwise; so a fully set specific record merges
\* with any fallback and comes back unchanged.
C2_MergeFieldwise ==
    (fn \in {"ConfigData::merge", "Template::merge"} /\ is_some(ret)) =>
        LET self == args[1]
            default == args[2]
            r == unwrap(ret)
        IN  (\A f \in MergeableFields(fn) : is_some(self[f]) \/ is_some(default[f])) =>
                /\ r.ok
                /\ \A f \in MergeableFields(fn) :
                       r.val[f] = IF is_some(self[f]) THEN self[f] ELSE default[f]

\* ----- C4
Max(S) == CHOOSE x \in S : \A y \in S : y <= x

FindCalled == fn = "find_project" /\ is_some(ret)
FindProjects == unwrap_or(args[1].project, <<>>)
FindTarget == path_join(args[2], args[3])

\* The lengths, among from..Len(target), of the leading parts of the target
\* path that are the root of a configured project.
RootedDepths(upto) ==
    {k \in 0..upto : \E i \in 1..Len(FindProjects) :
                          FindProjects[i].root = SubSeq(FindTarget, 1, k)}

\* C4 as stated: the result is the project rooted at the nearest ancestor
\* directory of the file, and none when no ancestor directory is a root.
C4_NearestAncestorDirectory ==
    FindCalled =>
        LET ks == RootedDepths(Len(FindTarget) - 1)
            r == unwrap(ret)
        IN  IF ks = {} THEN r = None
            ELSE /\ is_some(r)
                 /\ \E i \in 1..Len(FindProjects) :
                        r = Some(FindProjects[i])
                        /\ FindProjects[i].root = SubSeq(FindTarget, 1, Max(ks))

\* C4 amended: the result is the first project, in list order, rooted at the
\* nearest path among the file path itself and its ancestor directories that
\* is a configured root, by equality of whole paths; none when there is no
\* such path or the list is empty.
C4_NearestAncestorOrSelf ==
    FindCalled =>
        LET ks == RootedDepths(Len(FindTarget))
            r == unwrap(ret)
        IN  IF ks = {} THEN r = None
            ELSE LET rooted == {i \in 1..Len(FindProjects) :
                                   FindProjects[i].root = SubSeq(FindTarget, 1, Max(ks))}
                 IN  r = Some(FindProjects[CHOOSE i \in rooted : \A j \in rooted : i <= j])

C4_Witness ==
    /\ FindCalled
    /\ is_some(unwrap(ret))
    /\ Cardinality(RootedDepths(Len(FindTarget))) >= 2
    /\ Len(unwrap(unwrap(ret)).root) = 2
    /\ Len(FindTarget) > 2
    /\ FindProjects[1].root # unwrap(unwrap(ret)).root

\* ----- C9
\* The placeholder table: token and value, in the order of substitution.
Substitutions(template, proj, rel, root, clock) ==
    LET data == unwrap(proj.data)
        bracketed(o) == IF is_some(o) /\ unwrap(o) # <<>>
                        THEN <<"<">> \o unwrap(o) \o <<">">> ELSE <<>>
    IN  << <<"#copyright_notice", unwrap(template.copyright_notice)>>,
           <<"#file_creation", clock.creation_date>>,
           <<"#date_now", clock.modification_date>>,
           <<"#file_relative_path", to_str(rel)>>,
           <<"#project_name", unwrap_or(proj.name, <<root[Len(root)]>>)>>,
           <<"#author_name", unwrap_or(data.author, <<>>)>>,
           <<"#cp_year", clock.year>>,
           <<"#author_mail", bracketed(data.author_mail)>>,
           <<"#cp_holders", bracketed(data.cp_holders)>> >>

RECURSIVE substitute(_, _)
substitute(text, table) ==
    IF table = <<>> THEN text
    ELSE substitute(replace(text, <<table[1][1]>>, table[1][2]), Tail(table))

RenderCalled == fn = "fill_template" /\ is_some(ret) /\ unwrap(ret).ok

count_breaks(text) == Cardinality({i \in 1..Len(text) : text[i] = NL})

\* C9: the rendered header is the before lines as they are, then each line of
\* the substituted body behind the prefix, empty lines too, then the after
\* lines as they are; its length is the three lengths added.  The worked
\* example renders to "// Copyright 2024 <Acme>" and "// src/a.go".
C9_RenderStructure ==
    RenderCalled =>
        LET template == args[1]
            h == unwrap(ret).val
            before == unwrap_or(template.before, <<>>)
            after == unwrap_or(template.after, <<>>)
            prefix == unwrap_or(template.prefix, <<>>)
            rel == SubSeq(path_join(args[5], args[3]), Len(args[4]) + 1,
                          Len(path_join(args[5], args[3])))
            body == substitute(unwrap_or(template.template, <<>>),
                               Substitutions(template, args[2], rel, args[4], args[6]))
            n == count_breaks(body) + 1
        IN  /\ Len(h) = Len(before) + n + Len(after)
            /\ SubSeq(h, 1, Len(before)) = before
            /\ SubSeq(h, Len(before) + n + 1, Len(h)) = after
            /\ \A i \in 1..n : starts_with(h[Len(before) + i], prefix)
            /\ \A i \in 1..n : count_breaks(h[Len(before) + i]) = 0
            /\ join([i \in 1..n |-> SubSeq(h[Len(before) + i], Len(prefix) + 1,
                                           Len(h[Len(before) + i]))]) = body
            /\ args = ExampleArgs =>
                   h = << <<"// ", "Copyright ", "2024", " ", "<", "Acme", ">">>,
                          <<"// ", "src", "/", "a.go">> >>

C9_Witness ==
    /\ RenderCalled
    /\ unwrap_or(args[1].before, <<>>) # <<>>
    /\ unwrap_or(args[1].after, <<>>) # <<>>
    /\ unwrap_or(args[1].prefix, <<>>) # <<>>
    /\ \E i \in 1..Len(unwrap(ret).val) : unwrap(ret).val[i] = unwrap(args[1].prefix)
    /\ Len(unwrap(ret).val) >= 6

====
